---------------------------- MODULE Spec2Model ----------------------------
(***************************************************************************)
(* A model of src/operatingsystem.cpp: the banking simulation's            *)
(* AccountManager (ledger), MemoryManager (page cache), Scheduler and      *)
(* IPCManager, each with the threads that call it.                         *)
(*                                                                         *)
(* Every std::mutex is a variable holding the id of the owning thread (0   *)
(* when free); lock_guard's constructor is a step guarded by the mutex     *)
(* being free and its destructor is part of the step that returns.         *)
(* Balances are C++ floats in the source; the model keeps them as integers *)
(* in the range where float arithmetic is exact (|x| < 2^24).              *)
(***************************************************************************)
EXTENDS Integers, Sequences, FiniteSets, TLC

NoThread == 0

(***************************************************************************)
(* Bounds of the model.                                                    *)
(***************************************************************************)
\* threads calling MemoryManager::store_data_in_page
NumCallers == 2
\* calls of store_data_in_page over a run
MaxStores == 4
\* account ids that are stored in pages: 1..NumPageAccounts
NumPageAccounts == 3
\* MemoryManager's constructor argument (main passes 5)
max_pages == 2

\* worker threads calling deposit / withdraw (main starts four)
NumWorkers == 2
\* create_account calls main makes before it starts the workers (main makes two)
MaxCreates == 2

\* threads calling the scheduler (main is the only one in the source)
NumClients == 2
\* transactions created and submitted over a run (main submits two)
MaxTx == 2
\* calls of Scheduler::stop over a run (main makes one)
MaxStops == 2

\* threads calling IPCManager (main is the only one in the source)
NumIPCThreads == 3
\* calls of send_message over a run (main makes two)
MaxSends == 2
\* calls of receive_message over a run (main makes two)
MaxReceives == 3

VARIABLES
    \* ---- AccountManager, Logger, SystemCallInterface (src/operatingsystem.cpp:147-269, 447-512)
    accounts,         \* map<int, Account>: function from account id to Account
    next_account_id,  \* AccountManager::next_account_id
    am_mtx,           \* AccountManager::mtx: owning thread, NoThread when free
    log_mtx,          \* Logger::log_mtx: owning thread, NoThread when free
    transaction_log,  \* number of lines written to transactions.log
    error_log,        \* number of lines written to errors.log
    l_pc,             \* each ledger thread's position in the call it makes
    l_op,             \* each ledger thread's call: kind, via, account_id, amount
    l_tmp,            \* each ledger thread's register holding the balance it read
    l_after,          \* where a thread goes on after the log call it is in
    l_ret,            \* what each thread's call returned: "none", "true", "false"
    created,          \* history: what main's create_account calls returned, in order
    opened,           \* history: the initial balance each account was created with
    \* ---- MemoryManager (src/operatingsystem.cpp:377-414)
    memory,         \* list<Page>: sequence of [account_id, balance]
    mm_mtx,         \* MemoryManager::mtx: owning thread, NoThread when free
    mm_depth,       \* how often the owner holds mm_mtx (2: re-locked by the owner)
    mm_pc,          \* each caller's position in store_data_in_page / replace_page
    mm_arg,         \* each caller's arguments (account_id, balance)
    mm_hist,        \* history: account ids in the order their stores took the lock
    \* ---- ProcessManager, Scheduler (src/operatingsystem.cpp:272-374)
    process_table,        \* map<int, Process>: function from transaction id to Process
    next_transaction_id,  \* ProcessManager::next_transaction_id
    ready_queue,          \* queue<int>
    sched_mtx,            \* Scheduler::mtx: owning thread, NoThread when free
    sched_waiters,        \* the threads blocked in Scheduler::cv, not yet notified
    running,              \* atomic<bool> running
    gantt_chart,          \* vector<pair<int, string>>
    run_pc,               \* the scheduler thread's position in Scheduler::run
    run_tid,              \* run's local transaction_id (0 outside its scope)
    s_pc,                 \* each client's position in the call it makes
    s_arg,                \* each client's argument transaction_id
    enq_hist,             \* history: the ids pushed on ready_queue, in order
    stops_returned,       \* history: how many calls of stop() have returned
    \* ---- IPCManager (src/operatingsystem.cpp:417-444)
    message_queue,  \* queue<string>: the messages are numbered, 0 is the empty string
    ipc_mtx,        \* IPCManager::mtx: owning thread, NoThread when free
    ipc_waiters,    \* the threads blocked in IPCManager::cv, not yet notified
    i_pc,           \* each thread's position in send_message / receive_message
    i_arg,          \* each thread's argument: the message, or blocking (1) or not (0)
    sent,           \* history: the messages pushed, in order
    received,       \* history: the messages receive_message returned, in order
    receives        \* history: how many calls of receive_message were made

mm_vars == <<memory, mm_mtx, mm_depth, mm_pc, mm_arg, mm_hist>>

ledger_vars == <<accounts, next_account_id, am_mtx, log_mtx, transaction_log,
                 error_log, l_pc, l_op, l_tmp, l_after, l_ret, created, opened>>

sched_vars == <<process_table, next_transaction_id, ready_queue, sched_mtx,
                sched_waiters, running, gantt_chart, run_pc, run_tid, s_pc, s_arg,
                enq_hist, stops_returned>>

ipc_vars == <<message_queue, ipc_mtx, ipc_waiters, i_pc, i_arg, sent, received,
              receives>>

vars == <<ledger_vars, mm_vars, sched_vars, ipc_vars>>

\* a step of one class leaves the objects of the other classes alone
LedgerOnly == UNCHANGED <<mm_vars, sched_vars, ipc_vars>>

MMOnly == UNCHANGED <<ledger_vars, sched_vars, ipc_vars>>

SchedOnly == UNCHANGED <<ledger_vars, mm_vars, ipc_vars>>

IPCOnly == UNCHANGED <<ledger_vars, mm_vars, sched_vars>>

(***************************************************************************)
(* Helpers on sequences.                                                   *)
(***************************************************************************)
Range(s) == {s[i] : i \in 1..Len(s)}

IsPrefix(s, t) == Len(s) <= Len(t) /\ \A i \in 1..Len(s) : s[i] = t[i]

Distinct(s) == \A i, j \in 1..Len(s) : i # j => s[i] # s[j]


(***************************************************************************)
(* AccountManager, Logger, ErrorHandler, SystemCallInterface               *)
(*                                                                         *)
(* main creates the accounts through SystemCallInterface::create_account   *)
(* and then starts one thread per transaction (run_transaction); a worker  *)
(* here makes one call, through SystemCallInterface (via = "sys") or on    *)
(* AccountManager itself (via = "am").  The log files are kept as line     *)
(* counts.                                                                 *)
(***************************************************************************)
Workers == 1..NumWorkers

MainThread == NumWorkers + 1

LedgerThreads == Workers \cup {MainThread}

\* create_account's initial_balance arguments
InitialBalances == {-1, 300, 1000}

Account(a, c, b) == [account_id |-> a, customer_id |-> c, balance |-> b]

Op(k, v, a, x) == [kind |-> k, via |-> v, account_id |-> a, amount |-> x]

\* mutant of Found: the lookup is missing, every id passes
Found_Unchecked(a) == TRUE

\* accounts.find(account_id) != accounts.end()
Found(a) == a \in DOMAIN accounts

\* accounts[account_id].balance read: map::operator[] on an id that is not in
\* the map inserts a value-initialized Account (balance 0)
BalanceAt(accts, a) == IF a \in DOMAIN accts THEN accts[a].balance ELSE 0

\* accounts[account_id].balance = b, with the same insertion by operator[]
WithBalance(accts, a, b) ==
    [i \in DOMAIN accts \cup {a} |->
        IF i = a
           THEN IF a \in DOMAIN accts THEN [accts[a] EXCEPT !.balance = b]
                                       ELSE Account(0, 0, b)
           ELSE accts[i]]

\* accounts.erase(account_id)
Erased(accts, a) == [i \in DOMAIN accts \ {a} |-> accts[i]]

\* the calls SystemCallInterface offers on an existing account
SysKinds == {"deposit", "withdraw", "check_balance"}

\* the value a refused or failed call returns: false, or -1.0f from check_balance
Failure(kind) == IF kind = "check_balance" THEN "value" ELSE "false"

\* where an AccountManager method goes on once its condition holds
Body(kind) ==
    CASE kind \in {"deposit", "withdraw"} -> "am_read"
      [] kind = "check_balance" -> "cb_read"
      [] kind = "update_balance" -> "ub_write"
      [] kind = "delete_account" -> "del_erase"

\* mutant of MutexFree: the guard is missing, the critical section is open
MutexFree_Unguarded(m) == TRUE

\* lock_guard<mutex> lock(mtx) can be passed: the mutex is free
MutexFree(m) == m = NoThread

\* mutant of Unlocked: get_account returns with mtx still held by the caller
Unlocked_StillHeld(m) == m

\* the lock_guard's destructor at a return: the mutex is free again
Unlocked(m) == NoThread

\* mutant of SufficientFunds: the balance is not compared with the amount
SufficientFunds_Unchecked(balance, amount) == TRUE

\* withdraw's second condition: accounts[account_id].balance >= amount
SufficientFunds(balance, amount) == balance >= amount

\* ErrorHandler::validate_amount: amount <= 0 is invalid
ValidAmount(amount) == ~(amount <= 0)

\* mutant of NewBalance: withdraw adds the amount as deposit does
NewBalance_AlwaysAdds(kind, balance, amount) == balance + amount

\* balance += amount (deposit), balance -= amount (withdraw)
NewBalance(kind, balance, amount) ==
    IF kind = "deposit" THEN balance + amount ELSE balance - amount

LedgerInit ==
    /\ accounts = <<>>
    /\ next_account_id = 1
    /\ am_mtx = NoThread
    /\ log_mtx = NoThread
    /\ transaction_log = 0
    /\ error_log = 0
    /\ l_pc = [t \in LedgerThreads |-> "idle"]
    /\ l_op = [t \in LedgerThreads |-> Op("none", "none", 0, 0)]
    /\ l_tmp = [t \in LedgerThreads |-> 0]
    /\ l_after = [t \in LedgerThreads |-> "none"]
    /\ l_ret = [t \in LedgerThreads |-> "none"]
    /\ created = <<>>
    /\ opened = <<>>

\* thread t goes to position p
Goto(t, p) == l_pc' = [l_pc EXCEPT ![t] = p]

\* thread t calls logger.log_transaction / log_error and goes on at p afterwards
CallLog(t, file, p) ==
    /\ l_pc' = [l_pc EXCEPT ![t] = file]
    /\ l_after' = [l_after EXCEPT ![t] = p]

\* Logger::log_transaction / log_error: lock_guard<mutex> lock(log_mtx)
LogLock(t) ==
    /\ LedgerOnly
    /\ l_pc[t] \in {"log_transaction", "log_error"}
    /\ MutexFree(log_mtx)
    /\ log_mtx' = t
    /\ Goto(t, IF l_pc[t] = "log_transaction" THEN "write_transaction" ELSE "write_error")
    /\ UNCHANGED <<accounts, next_account_id, am_mtx, transaction_log, error_log,
                   l_op, l_tmp, l_after, l_ret, created, opened>>

\* Logger::log_transaction / log_error: write the line, release log_mtx, return
LogWrite(t) ==
    /\ LedgerOnly
    /\ l_pc[t] \in {"write_transaction", "write_error"}
    /\ IF l_pc[t] = "write_transaction"
          THEN transaction_log' = transaction_log + 1 /\ UNCHANGED error_log
          ELSE error_log' = error_log + 1 /\ UNCHANGED transaction_log
    /\ log_mtx' = NoThread
    /\ Goto(t, l_after[t])
    /\ l_after' = [l_after EXCEPT ![t] = "none"]
    /\ UNCHANGED <<accounts, next_account_id, am_mtx, l_op, l_tmp, l_ret,
                   created, opened>>

\* main calls SystemCallInterface::create_account(customer_id, initial_balance),
\* the initial balance one of balances: a negative initial balance is logged
\* and refused, otherwise add_account
CreateCall(t, balances) ==
    /\ LedgerOnly
    /\ t = MainThread
    /\ l_pc[t] = "idle"
    /\ Len(created) < MaxCreates
    /\ \E b \in balances :
          /\ l_op' = [l_op EXCEPT ![t] = Op("create", "sys", Len(created) + 1, b)]
          /\ IF b < 0
                THEN CallLog(t, "log_error", "create_refused")
                ELSE Goto(t, "add_lock") /\ UNCHANGED l_after
    /\ UNCHANGED <<accounts, next_account_id, am_mtx, log_mtx, transaction_log,
                   error_log, l_tmp, l_ret, created, opened>>

\* create_account: return -1
CreateRefused(t) ==
    /\ LedgerOnly
    /\ l_pc[t] = "create_refused"
    /\ created' = Append(created, -1)
    /\ Goto(t, IF t = MainThread THEN "idle" ELSE "done")
    /\ UNCHANGED <<accounts, next_account_id, am_mtx, log_mtx, transaction_log,
                   error_log, l_op, l_tmp, l_after, l_ret, opened>>

\* add_account: lock_guard<mutex> lock(mtx)
AddLock(t) ==
    /\ LedgerOnly
    /\ l_pc[t] = "add_lock"
    /\ MutexFree(am_mtx)
    /\ am_mtx' = t
    /\ Goto(t, "add_load")
    /\ UNCHANGED <<accounts, next_account_id, log_mtx, transaction_log, error_log,
                   l_op, l_tmp, l_after, l_ret, created, opened>>

\* add_account: account_id = next_account_id++: the load
AddLoad(t) ==
    /\ LedgerOnly
    /\ l_pc[t] = "add_load"
    /\ l_tmp' = [l_tmp EXCEPT ![t] = next_account_id]
    /\ Goto(t, "add_body")
    /\ UNCHANGED <<accounts, next_account_id, am_mtx, log_mtx, transaction_log,
                   error_log, l_op, l_after, l_ret, created, opened>>

\* add_account: account_id = next_account_id++: the store; then
\* accounts[account_id] = {...}; log
AddBody(t) ==
    /\ LedgerOnly
    /\ l_pc[t] = "add_body"
    /\ next_account_id' = l_tmp[t] + 1
    /\ accounts' = [a \in DOMAIN accounts \cup {l_tmp[t]} |->
                       IF a = l_tmp[t]
                          THEN Account(a, l_op[t].account_id, l_op[t].amount)
                          ELSE accounts[a]]
    /\ opened' = [a \in DOMAIN opened \cup {l_tmp[t]} |->
                       IF a = l_tmp[t] THEN l_op[t].amount ELSE opened[a]]
    /\ CallLog(t, "log_transaction", "add_return")
    /\ UNCHANGED <<am_mtx, log_mtx, transaction_log, error_log, l_op, l_tmp, l_ret,
                   created>>

\* add_account: return account_id (the guard releases mtx)
AddReturn(t) ==
    /\ LedgerOnly
    /\ l_pc[t] = "add_return"
    /\ am_mtx' = NoThread
    /\ created' = Append(created, l_tmp[t])
    /\ l_tmp' = [l_tmp EXCEPT ![t] = 0]
    /\ Goto(t, IF t = MainThread THEN "idle" ELSE "done")
    /\ UNCHANGED <<accounts, next_account_id, log_mtx, transaction_log, error_log,
                   l_op, l_after, l_ret, opened>>

\* main has created its accounts and started the transaction threads
Spawned == l_pc[MainThread] = "joining"

\* main, its create_account calls made: thread t1(run_transaction, ...), ...
Spawn(t) ==
    /\ LedgerOnly
    /\ t = MainThread
    /\ l_pc[t] = "idle"
    /\ Len(created) = MaxCreates
    /\ Goto(t, "joining")
    /\ UNCHANGED <<accounts, next_account_id, am_mtx, log_mtx, transaction_log,
                   error_log, l_op, l_tmp, l_after, l_ret, created, opened>>

\* main constructs the transaction threads one after the other; a worker calls
\* a method with arguments (account_id, amount), through SystemCallInterface
\* where it offers the method
TransactionCall(t, kinds, vias, ids, amounts) ==
    /\ LedgerOnly
    /\ t \in Workers
    /\ Spawned
    /\ l_pc[t] = "idle"
    /\ IF t = 1 THEN TRUE ELSE l_pc[t - 1] # "idle"
    /\ \E k \in kinds, v \in vias, a \in ids, x \in amounts :
          /\ v = "sys" => k \in SysKinds
          /\ l_op' = [l_op EXCEPT ![t] = Op(k, v, a, x)]
          /\ Goto(t, IF v = "sys" THEN "get_lock" ELSE "am_lock")
    /\ UNCHANGED <<accounts, next_account_id, am_mtx, log_mtx, transaction_log,
                   error_log, l_tmp, l_after, l_ret, created, opened>>

\* a worker calls SystemCallInterface::create_account, as main does, with its
\* number as customer_id
CreateAccountCall(t, balances) ==
    /\ LedgerOnly
    /\ t \in Workers
    /\ Spawned
    /\ l_pc[t] = "idle"
    /\ IF t = 1 THEN TRUE ELSE l_pc[t - 1] # "idle"
    /\ \E b \in balances :
          /\ l_op' = [l_op EXCEPT ![t] = Op("create_account", "sys", t, b)]
          /\ IF b < 0
                THEN CallLog(t, "log_error", "create_refused")
                ELSE Goto(t, "add_lock") /\ UNCHANGED l_after
    /\ UNCHANGED <<accounts, next_account_id, am_mtx, log_mtx, transaction_log,
                   error_log, l_tmp, l_ret, created, opened>>

\* ErrorHandler::validate_account_id -> AccountManager::get_account: lock_guard
GetAccountLock(t) ==
    /\ LedgerOnly
    /\ l_pc[t] = "get_lock"
    /\ MutexFree(am_mtx)
    /\ am_mtx' = t
    /\ Goto(t, "get_find")
    /\ UNCHANGED <<accounts, next_account_id, log_mtx, transaction_log, error_log,
                   l_op, l_tmp, l_after, l_ret, created, opened>>

\* get_account: found: return the account (mtx released), and the caller goes
\* on to validate_amount or, in check_balance, to the AccountManager call; else
\* log_error first
GetAccountFind(t) ==
    /\ LedgerOnly
    /\ l_pc[t] = "get_find"
    /\ IF Found(l_op[t].account_id)
          THEN /\ am_mtx' = Unlocked(am_mtx)
               /\ Goto(t, IF l_op[t].kind = "check_balance" THEN "am_lock"
                                                            ELSE "validate_amount")
               /\ UNCHANGED l_after
          ELSE /\ CallLog(t, "log_error", "get_invalid")
               /\ UNCHANGED am_mtx
    /\ UNCHANGED <<accounts, next_account_id, log_mtx, transaction_log, error_log,
                   l_op, l_tmp, l_ret, created, opened>>

\* get_account: return {-1, -1, -1.0f} (mtx released); validate_account_id then
\* calls handle_error, which logs, and returns false
GetAccountInvalid(t) ==
    /\ LedgerOnly
    /\ l_pc[t] = "get_invalid"
    /\ am_mtx' = Unlocked(am_mtx)
    /\ CallLog(t, "log_error", "sys_refused")
    /\ UNCHANGED <<accounts, next_account_id, log_mtx, transaction_log, error_log,
                   l_op, l_tmp, l_ret, created, opened>>

\* ErrorHandler::validate_amount: amount <= 0 is logged and refused
ValidateAmount(t) ==
    /\ LedgerOnly
    /\ l_pc[t] = "validate_amount"
    /\ IF ValidAmount(l_op[t].amount)
          THEN Goto(t, "am_lock") /\ UNCHANGED l_after
          ELSE CallLog(t, "log_error", "sys_refused")
    /\ UNCHANGED <<accounts, next_account_id, am_mtx, log_mtx, transaction_log,
                   error_log, l_op, l_tmp, l_ret, created, opened>>

\* SystemCallInterface::deposit / withdraw: return false (a validation failed);
\* check_balance: return -1.0f
SysRefused(t) ==
    /\ LedgerOnly
    /\ l_pc[t] = "sys_refused"
    /\ l_ret' = [l_ret EXCEPT ![t] = Failure(l_op[t].kind)]
    /\ l_tmp' = [l_tmp EXCEPT ![t] = IF l_op[t].kind = "check_balance" THEN -1 ELSE @]
    /\ Goto(t, "done")
    /\ UNCHANGED <<accounts, next_account_id, am_mtx, log_mtx, transaction_log,
                   error_log, l_op, l_after, created, opened>>

\* AccountManager::deposit / withdraw / check_balance / update_balance /
\* delete_account: lock_guard<mutex> lock(mtx)
AMLock(t) ==
    /\ LedgerOnly
    /\ l_pc[t] = "am_lock"
    /\ MutexFree(am_mtx)
    /\ am_mtx' = t
    /\ Goto(t, "am_find")
    /\ UNCHANGED <<accounts, next_account_id, log_mtx, transaction_log, error_log,
                   l_op, l_tmp, l_after, l_ret, created, opened>>

\* deposit, check_balance, update_balance: if (found); delete_account: if
\* (erase(id)), which is 1 for an id found; withdraw: if (found && balance >=
\* amount); else log_error
AMFind(t) ==
    /\ LedgerOnly
    /\ l_pc[t] = "am_find"
    /\ LET a == l_op[t].account_id
           ok == /\ Found(a)
                 /\ l_op[t].kind = "withdraw" =>
                       SufficientFunds(BalanceAt(accounts, a), l_op[t].amount)
       IN  IF ok THEN Goto(t, Body(l_op[t].kind)) /\ UNCHANGED l_after
                 ELSE CallLog(t, "log_error", "am_false")
    /\ UNCHANGED <<accounts, next_account_id, am_mtx, log_mtx, transaction_log,
                   error_log, l_op, l_tmp, l_ret, created, opened>>

\* accounts[account_id].balance += / -= amount: the load
AMRead(t) ==
    /\ LedgerOnly
    /\ l_pc[t] = "am_read"
    /\ l_tmp' = [l_tmp EXCEPT ![t] = BalanceAt(accounts, l_op[t].account_id)]
    /\ Goto(t, "am_write")
    /\ UNCHANGED <<accounts, next_account_id, am_mtx, log_mtx, transaction_log,
                   error_log, l_op, l_after, l_ret, created, opened>>

\* accounts[account_id].balance += / -= amount: the store; then log_transaction
AMWrite(t) ==
    /\ LedgerOnly
    /\ l_pc[t] = "am_write"
    /\ accounts' = WithBalance(accounts, l_op[t].account_id,
                                NewBalance(l_op[t].kind, l_tmp[t], l_op[t].amount))
    /\ CallLog(t, "log_transaction", "am_true")
    /\ UNCHANGED <<next_account_id, am_mtx, log_mtx, transaction_log, error_log,
                   l_op, l_tmp, l_ret, created, opened>>

\* check_balance: return accounts[account_id].balance: the load
CheckRead(t) ==
    /\ LedgerOnly
    /\ l_pc[t] = "cb_read"
    /\ l_tmp' = [l_tmp EXCEPT ![t] = BalanceAt(accounts, l_op[t].account_id)]
    /\ Goto(t, "cb_value")
    /\ UNCHANGED <<accounts, next_account_id, am_mtx, log_mtx, transaction_log,
                   error_log, l_op, l_after, l_ret, created, opened>>

\* update_balance: accounts[account_id].balance = new_balance; log_transaction
UpdateWrite(t) ==
    /\ LedgerOnly
    /\ l_pc[t] = "ub_write"
    /\ accounts' = WithBalance(accounts, l_op[t].account_id, l_op[t].amount)
    /\ CallLog(t, "log_transaction", "am_true")
    /\ UNCHANGED <<next_account_id, am_mtx, log_mtx, transaction_log, error_log,
                   l_op, l_tmp, l_ret, created, opened>>

\* delete_account: accounts.erase(account_id) removed the entry; log_transaction
DeleteErase(t) ==
    /\ LedgerOnly
    /\ l_pc[t] = "del_erase"
    /\ accounts' = Erased(accounts, l_op[t].account_id)
    /\ CallLog(t, "log_transaction", "am_true")
    /\ UNCHANGED <<next_account_id, am_mtx, log_mtx, transaction_log, error_log,
                   l_op, l_tmp, l_ret, created, opened>>

\* deposit / withdraw / update_balance / delete_account: return true or false;
\* check_balance: return the balance read, or -1.0f (the guard releases mtx).
\* A value returned stays in l_tmp.
AMReturn(t) ==
    /\ LedgerOnly
    /\ l_pc[t] \in {"am_true", "am_false", "cb_value"}
    /\ am_mtx' = NoThread
    /\ l_ret' = [l_ret EXCEPT ![t] = IF l_pc[t] = "am_true" THEN "true"
                                     ELSE IF l_pc[t] = "cb_value" THEN "value"
                                     ELSE Failure(l_op[t].kind)]
    /\ l_tmp' = [l_tmp EXCEPT ![t] = IF l_pc[t] = "cb_value" THEN @
                                     ELSE IF l_op[t].kind = "check_balance" THEN -1
                                     ELSE 0]
    /\ Goto(t, "done")
    /\ UNCHANGED <<accounts, next_account_id, log_mtx, transaction_log, error_log,
                   l_op, l_after, created, opened>>

\* the steps inside a call, whatever the call
LedgerStep(t) ==
    \/ LogLock(t)
    \/ LogWrite(t)
    \/ CreateRefused(t)
    \/ AddLock(t)
    \/ AddLoad(t)
    \/ AddBody(t)
    \/ AddReturn(t)
    \/ GetAccountLock(t)
    \/ GetAccountFind(t)
    \/ GetAccountInvalid(t)
    \/ ValidateAmount(t)
    \/ SysRefused(t)
    \/ AMLock(t)
    \/ AMFind(t)
    \/ AMRead(t)
    \/ AMWrite(t)
    \/ AMReturn(t)

\* the steps of Logger's methods and of add_account
CreateStep(t) ==
    \/ LogLock(t)
    \/ LogWrite(t)
    \/ AddLock(t)
    \/ AddLoad(t)
    \/ AddBody(t)
    \/ AddReturn(t)

\* the steps of validate_account_id and of SystemCallInterface's refusal
ValidateStep(t) ==
    \/ GetAccountLock(t)
    \/ GetAccountFind(t)
    \/ GetAccountInvalid(t)
    \/ SysRefused(t)

\* the steps every AccountManager method on an account id takes
MethodStep(t) ==
    \/ AMLock(t)
    \/ AMFind(t)
    \/ AMReturn(t)

\* main creates accounts, then the workers deposit into and withdraw from
\* account 1 through SystemCallInterface, as main's threads t1 and t2 do
LedgerNext ==
    \E t \in LedgerThreads :
        \/ CreateCall(t, InitialBalances)
        \/ Spawn(t)
        \/ TransactionCall(t, {"deposit", "withdraw"}, {"sys"}, {1}, {200, 500})
        \/ LedgerStep(t)

\* the workers all deposit a positive amount into account 1
DepositNext ==
    \E t \in LedgerThreads :
        \/ CreateCall(t, InitialBalances)
        \/ Spawn(t)
        \/ TransactionCall(t, {"deposit"}, {"sys", "am"}, {1}, {200, 500})
        \/ LedgerStep(t)

\* the workers call AccountManager itself or go through SystemCallInterface,
\* with amounts that validate_amount refuses among them
DirectNext ==
    \E t \in LedgerThreads :
        \/ CreateCall(t, InitialBalances)
        \/ Spawn(t)
        \/ TransactionCall(t, {"deposit", "withdraw"}, {"sys", "am"}, {1}, {-200, 0, 200})
        \/ LedgerStep(t)

\* the workers deposit into, withdraw from and read the balance of account 1,
\* the readers through SystemCallInterface or on AccountManager itself
BalanceNext ==
    \E t \in LedgerThreads :
        \/ CreateCall(t, InitialBalances)
        \/ Spawn(t)
        \/ TransactionCall(t, {"deposit", "withdraw"}, {"am"}, {1}, {200})
        \/ TransactionCall(t, {"check_balance"}, {"sys", "am"}, {1}, {200})
        \/ CreateStep(t)
        \/ CreateRefused(t)
        \/ ValidateStep(t)
        \/ MethodStep(t)
        \/ AMRead(t)
        \/ AMWrite(t)
        \/ CheckRead(t)

\* the workers call every method that takes an account id on account 1, which
\* was created, was never created (main's create_account calls were refused)
\* or is deleted by another worker, at any point of the other calls
UnknownNext ==
    \E t \in LedgerThreads :
        \/ CreateCall(t, {-1, 300})
        \/ Spawn(t)
        \/ TransactionCall(t, {"deposit", "check_balance"}, {"sys"}, {1}, {200})
        \/ TransactionCall(t, {"deposit", "withdraw", "check_balance",
                                "update_balance", "delete_account"},
                            {"am"}, {1}, {200})
        \/ LedgerStep(t)
        \/ CheckRead(t)
        \/ UpdateWrite(t)
        \/ DeleteErase(t)

\* after main's accounts, the workers create accounts concurrently and delete
\* accounts, the one created last among them
CreateNext ==
    \E t \in LedgerThreads :
        \/ CreateCall(t, {300})
        \/ Spawn(t)
        \/ CreateAccountCall(t, {-1, 300})
        \/ TransactionCall(t, {"delete_account"}, {"am"}, 1..MaxCreates, {0})
        \/ CreateStep(t)
        \/ CreateRefused(t)
        \/ MethodStep(t)
        \/ DeleteErase(t)

\* the workers call AccountManager's deposit and withdraw on account 1 with
\* amounts of either sign, so that withdrawals meet balances of either sign
WithdrawNext ==
    \E t \in LedgerThreads :
        \/ CreateCall(t, {300})
        \/ Spawn(t)
        \/ TransactionCall(t, {"deposit", "withdraw"}, {"am"}, {1}, {-500, 200})
        \/ CreateStep(t)
        \/ MethodStep(t)
        \/ AMRead(t)
        \/ AMWrite(t)

\* after main's accounts, the workers call create_account, deposit, withdraw
\* and check_balance through SystemCallInterface and delete_account on
\* AccountManager, all on account 1, concurrently
AllCallsNext ==
    \E t \in LedgerThreads :
        \/ CreateCall(t, {300})
        \/ Spawn(t)
        \/ CreateAccountCall(t, {-1, 300})
        \/ TransactionCall(t, SysKinds, {"sys"}, {1}, {200})
        \/ TransactionCall(t, {"delete_account"}, {"am"}, {1}, {0})
        \/ LedgerStep(t)
        \/ CheckRead(t)
        \/ DeleteErase(t)

\* the steps thread t takes by itself once it is inside a call
InCallStep(t) == LedgerStep(t) \/ CheckRead(t) \/ DeleteErase(t)

(***************************************************************************)
(* MemoryManager                                                           *)
(***************************************************************************)
MMThreads == 1..NumCallers

PageAccounts == 1..NumPageAccounts

\* balance snapshots passed to store_data_in_page
PageBalances == {100, 200}

Page(a, b) == [account_id |-> a, balance |-> b]

CachedAccounts == {memory[i].account_id : i \in 1..Len(memory)}

MMInit ==
    /\ memory = <<>>
    /\ mm_mtx = NoThread
    /\ mm_depth = 0
    /\ mm_pc = [t \in MMThreads |-> "idle"]
    /\ mm_arg = [t \in MMThreads |-> Page(0, 0)]
    /\ mm_hist = <<>>

\* an uncaught exception left a thread: std::terminate ends the process
MMAborted == \E t \in MMThreads : mm_pc[t] = "terminated"

\* a caller enters store_data_in_page(account_id, balance)
StoreCall(t) ==
    /\ MMOnly
    /\ ~MMAborted
    /\ mm_pc[t] = "idle"
    /\ Len(mm_hist) + Cardinality({u \in MMThreads : mm_pc[u] = "store_lock"}) < MaxStores
    /\ \E a \in PageAccounts, b \in PageBalances :
          mm_arg' = [mm_arg EXCEPT ![t] = Page(a, b)]
    /\ mm_pc' = [mm_pc EXCEPT ![t] = "store_lock"]
    /\ UNCHANGED <<memory, mm_mtx, mm_depth, mm_hist>>

\* store_data_in_page: lock_guard<mutex> lock(mtx)
StoreLock(t) ==
    /\ MMOnly
    /\ ~MMAborted
    /\ mm_pc[t] = "store_lock"
    /\ mm_mtx = NoThread
    /\ mm_mtx' = t
    /\ mm_depth' = 1
    /\ mm_pc' = [mm_pc EXCEPT ![t] = "store_body"]
    /\ mm_hist' = Append(mm_hist, mm_arg[t].account_id)
    /\ UNCHANGED <<memory, mm_arg>>

\* store_data_in_page: if (memory.size() >= max_pages) replace_page(...) else push_back
StoreBody(t) ==
    /\ MMOnly
    /\ ~MMAborted
    /\ mm_pc[t] = "store_body"
    /\ IF Len(memory) >= max_pages
          THEN /\ mm_pc' = [mm_pc EXCEPT ![t] = "replace_lock"]
               /\ UNCHANGED memory
          ELSE /\ memory' = Append(memory, mm_arg[t])
               /\ mm_pc' = [mm_pc EXCEPT ![t] = "store_unlock"]
    /\ UNCHANGED <<mm_mtx, mm_depth, mm_arg, mm_hist>>

(***************************************************************************)
(* replace_page: lock_guard<mutex> lock(mtx), reached from                 *)
(* store_data_in_page with mtx already held by the calling thread.  Locking*)
(* a std::mutex the thread owns is undefined behaviour; what builds do:    *)
(*   "deadlock"  the thread waits for itself forever (pthread mutexes);    *)
(*   "recursive" the lock is granted again and counted (MSVC's _Mtx_lock   *)
(*               on a mutex owned by the current thread);                  *)
(*   "throw"     std::system_error(resource_deadlock_would_occur), which   *)
(*               unwinds store_data_in_page's guard and leaves the thread  *)
(*               function: std::terminate.                                 *)
(***************************************************************************)
RelockOutcomes == {"deadlock", "recursive", "throw"}

ReplaceLock(t) ==
    /\ MMOnly
    /\ ~MMAborted
    /\ mm_pc[t] = "replace_lock"
    /\ mm_mtx = t
    /\ \E o \in RelockOutcomes :
         CASE o = "deadlock" ->
                 /\ mm_pc' = [mm_pc EXCEPT ![t] = "deadlocked"]
                 /\ UNCHANGED <<mm_mtx, mm_depth>>
           [] o = "recursive" ->
                 /\ mm_pc' = [mm_pc EXCEPT ![t] = "replace_body"]
                 /\ mm_depth' = mm_depth + 1
                 /\ UNCHANGED mm_mtx
           [] o = "throw" ->
                 /\ mm_pc' = [mm_pc EXCEPT ![t] = "terminated"]
                 /\ mm_mtx' = NoThread
                 /\ mm_depth' = 0
    /\ UNCHANGED <<memory, mm_arg, mm_hist>>

\* replace_page: memory.pop_front(); memory.push_back({account_id, balance})
ReplaceBody(t) ==
    /\ MMOnly
    /\ ~MMAborted
    /\ mm_pc[t] = "replace_body"
    /\ memory' = Append(Tail(memory), mm_arg[t])
    /\ mm_pc' = [mm_pc EXCEPT ![t] = "replace_unlock"]
    /\ UNCHANGED <<mm_mtx, mm_depth, mm_arg, mm_hist>>

\* replace_page returns: its lock_guard releases one level of the mutex
ReplaceUnlock(t) ==
    /\ MMOnly
    /\ ~MMAborted
    /\ mm_pc[t] = "replace_unlock"
    /\ mm_depth' = mm_depth - 1
    /\ mm_pc' = [mm_pc EXCEPT ![t] = "store_unlock"]
    /\ UNCHANGED <<memory, mm_mtx, mm_arg, mm_hist>>

\* store_data_in_page returns: its lock_guard releases the mutex
StoreUnlock(t) ==
    /\ MMOnly
    /\ ~MMAborted
    /\ mm_pc[t] = "store_unlock"
    /\ mm_mtx' = NoThread
    /\ mm_depth' = 0
    /\ mm_pc' = [mm_pc EXCEPT ![t] = "idle"]
    /\ UNCHANGED <<memory, mm_arg, mm_hist>>

MMNext ==
    \E t \in MMThreads :
        \/ StoreCall(t)
        \/ StoreLock(t)
        \/ StoreBody(t)
        \/ ReplaceLock(t)
        \/ ReplaceBody(t)
        \/ ReplaceUnlock(t)
        \/ StoreUnlock(t)

(***************************************************************************)
(* ProcessManager and Scheduler                                            *)
(*                                                                         *)
(* One thread runs Scheduler::run (main's scheduler_thread).  The clients  *)
(* create a transaction process and put it on the ready queue, terminate a *)
(* transaction process, or call stop().  ProcessManager's methods hold its *)
(* own mutex from entry to return and call nothing: each is one step.      *)
(***************************************************************************)
Clients == 1..NumClients

\* the id of the thread running Scheduler::run
RunThread == NumClients + 1

\* the (customer_id, account_id) pairs main passes to create_transaction_process
TxOwners == {<<1, 1>>}

Process(t_id, st, a_id, c_id) ==
    [transaction_id |-> t_id, state |-> st, account_id |-> a_id, customer_id |-> c_id]

\* mutant of Enqueue: the id is put at the front of the queue
Enqueue_AtFront(q, id) == <<id>> \o q

\* ready_queue.push(transaction_id)
Enqueue(q, id) == Append(q, id)

\* mutant of NotifyOne: the notification reaches no waiting thread
NotifyOne_Lost(waiters) == waiters

\* cv.notify_one() on Scheduler::cv: run is the only thread that waits on it,
\* so the one thread woken is run, if it waits
NotifyOne(waiters) == {}

\* cv.notify_all()
NotifyAll(waiters) == {}

\* mutant of UpdatedState: the entry is written without the lookup, and
\* map::operator[] inserts one for an id that is not in the table
UpdatedState_Recreates(table, t_id, st) ==
    [i \in DOMAIN table \cup {t_id} |->
        IF i = t_id THEN Process(t_id, st, 0, 0) ELSE table[i]]

\* ProcessManager::update_process_state: only an entry that exists is written
UpdatedState(table, t_id, st) ==
    IF t_id \in DOMAIN table
       THEN [table EXCEPT ![t_id].state = st]
       ELSE table

SchedInit ==
    /\ process_table = <<>>
    /\ next_transaction_id = 1
    /\ ready_queue = <<>>
    /\ sched_mtx = NoThread
    /\ sched_waiters = {}
    /\ running = TRUE
    /\ gantt_chart = <<>>
    /\ run_pc = "loop"
    /\ run_tid = 0
    /\ s_pc = [c \in Clients |-> "idle"]
    /\ s_arg = [c \in Clients |-> 0]
    /\ enq_hist = <<>>
    /\ stops_returned = 0

\* ---- the clients

\* ProcessManager::create_transaction_process, on the way to add_to_ready_queue
CreateTransaction(c) ==
    /\ SchedOnly
    /\ s_pc[c] = "idle"
    /\ next_transaction_id <= MaxTx
    /\ \E o \in TxOwners :
          process_table' =
              [i \in DOMAIN process_table \cup {next_transaction_id} |->
                  IF i = next_transaction_id
                     THEN Process(i, "Ready", o[2], o[1])
                     ELSE process_table[i]]
    /\ next_transaction_id' = next_transaction_id + 1
    /\ s_arg' = [s_arg EXCEPT ![c] = next_transaction_id]
    /\ s_pc' = [s_pc EXCEPT ![c] = "add_lock"]
    /\ UNCHANGED <<ready_queue, sched_mtx, sched_waiters, running, gantt_chart,
                   run_pc, run_tid, enq_hist, stops_returned>>

\* add_to_ready_queue: lock_guard<mutex> lock(mtx)
AddToReadyQueueLock(c) ==
    /\ SchedOnly
    /\ s_pc[c] = "add_lock"
    /\ MutexFree(sched_mtx)
    /\ sched_mtx' = c
    /\ s_pc' = [s_pc EXCEPT ![c] = "add_push"]
    /\ UNCHANGED <<process_table, next_transaction_id, ready_queue, sched_waiters,
                   running, gantt_chart, run_pc, run_tid, s_arg, enq_hist,
                   stops_returned>>

\* add_to_ready_queue: ready_queue.push(transaction_id); cv.notify_one(); return
\* (run is the only thread that waits on cv)
AddToReadyQueuePush(c) ==
    /\ SchedOnly
    /\ s_pc[c] = "add_push"
    /\ ready_queue' = Enqueue(ready_queue, s_arg[c])
    /\ enq_hist' = Append(enq_hist, s_arg[c])
    /\ sched_waiters' = NotifyOne(sched_waiters)
    /\ sched_mtx' = NoThread
    /\ s_pc' = [s_pc EXCEPT ![c] = "idle"]
    /\ s_arg' = [s_arg EXCEPT ![c] = 0]
    /\ UNCHANGED <<process_table, next_transaction_id, running, gantt_chart,
                   run_pc, run_tid, stops_returned>>

\* ProcessManager::terminate_transaction_process(transaction_id): an entry
\* that exists is set to "Terminated" and erased
TerminateTransaction(c) ==
    /\ SchedOnly
    /\ s_pc[c] = "idle"
    /\ \E t_id \in DOMAIN process_table :
          process_table' = [i \in DOMAIN process_table \ {t_id} |-> process_table[i]]
    /\ UNCHANGED <<next_transaction_id, ready_queue, sched_mtx, sched_waiters,
                   running, gantt_chart, run_pc, run_tid, s_pc, s_arg, enq_hist,
                   stops_returned>>

\* stop: running = false
StopStore(c) ==
    /\ SchedOnly
    /\ s_pc[c] = "idle"
    /\ stops_returned + Cardinality({d \in Clients : s_pc[d] = "stop_notify"}) < MaxStops
    /\ running' = FALSE
    /\ s_pc' = [s_pc EXCEPT ![c] = "stop_notify"]
    /\ UNCHANGED <<process_table, next_transaction_id, ready_queue, sched_mtx,
                   sched_waiters, gantt_chart, run_pc, run_tid, s_arg, enq_hist,
                   stops_returned>>

\* stop: cv.notify_all(); return
StopNotify(c) ==
    /\ SchedOnly
    /\ s_pc[c] = "stop_notify"
    /\ sched_waiters' = NotifyAll(sched_waiters)
    /\ stops_returned' = stops_returned + 1
    /\ s_pc' = [s_pc EXCEPT ![c] = "idle"]
    /\ UNCHANGED <<process_table, next_transaction_id, ready_queue, sched_mtx,
                   running, gantt_chart, run_pc, run_tid, s_arg, enq_hist>>

\* ---- Scheduler::run

\* while (running)
RunLoop ==
    /\ SchedOnly
    /\ run_pc = "loop"
    /\ run_pc' = IF running THEN "lock" ELSE "returned"
    /\ UNCHANGED <<process_table, next_transaction_id, ready_queue, sched_mtx,
                   sched_waiters, running, gantt_chart, run_tid, s_pc, s_arg,
                   enq_hist, stops_returned>>

\* unique_lock<mutex> lock(mtx)
RunLock ==
    /\ SchedOnly
    /\ run_pc = "lock"
    /\ MutexFree(sched_mtx)
    /\ sched_mtx' = RunThread
    /\ run_pc' = "pred"
    /\ UNCHANGED <<process_table, next_transaction_id, ready_queue, sched_waiters,
                   running, gantt_chart, run_tid, s_pc, s_arg, enq_hist,
                   stops_returned>>

\* cv.wait(lock, pred): the predicate !ready_queue.empty() || !running
RunPredicate ==
    /\ SchedOnly
    /\ run_pc = "pred"
    /\ run_pc' = IF ready_queue # <<>> \/ ~running THEN "check" ELSE "wait"
    /\ UNCHANGED <<process_table, next_transaction_id, ready_queue, sched_mtx,
                   sched_waiters, running, gantt_chart, run_tid, s_pc, s_arg,
                   enq_hist, stops_returned>>

\* cv.wait(lock, pred): the predicate was false: wait(lock) releases mtx and
\* blocks, in one step
RunWait ==
    /\ SchedOnly
    /\ run_pc = "wait"
    /\ sched_mtx' = NoThread
    /\ sched_waiters' = sched_waiters \cup {RunThread}
    /\ run_pc' = "blocked"
    /\ UNCHANGED <<process_table, next_transaction_id, ready_queue, running,
                   gantt_chart, run_tid, s_pc, s_arg, enq_hist, stops_returned>>

\* cv.wait(lock, pred): notified, wait(lock) takes mtx again and returns to
\* the predicate
RunWake ==
    /\ SchedOnly
    /\ run_pc = "blocked"
    /\ RunThread \notin sched_waiters
    /\ MutexFree(sched_mtx)
    /\ sched_mtx' = RunThread
    /\ run_pc' = "pred"
    /\ UNCHANGED <<process_table, next_transaction_id, ready_queue, sched_waiters,
                   running, gantt_chart, run_tid, s_pc, s_arg, enq_hist,
                   stops_returned>>

\* condition_variable::wait may return without a notification
SpuriousWakeup ==
    /\ SchedOnly
    /\ run_pc = "blocked"
    /\ RunThread \in sched_waiters
    /\ sched_waiters' = sched_waiters \ {RunThread}
    /\ UNCHANGED <<process_table, next_transaction_id, ready_queue, sched_mtx,
                   running, gantt_chart, run_pc, run_tid, s_pc, s_arg, enq_hist,
                   stops_returned>>

\* if (!running) break: the atomic load of running; on break the lock's
\* destructor releases mtx and run returns
RunCheck ==
    /\ SchedOnly
    /\ run_pc = "check"
    /\ IF ~running
          THEN run_pc' = "returned" /\ sched_mtx' = NoThread
          ELSE run_pc' = "dequeue" /\ UNCHANGED sched_mtx
    /\ UNCHANGED <<process_table, next_transaction_id, ready_queue, sched_waiters,
                   running, gantt_chart, run_tid, s_pc, s_arg, enq_hist,
                   stops_returned>>

\* transaction_id = ready_queue.front(); ready_queue.pop(); lock.unlock()
RunDequeue ==
    /\ SchedOnly
    /\ run_pc = "dequeue"
    /\ run_tid' = Head(ready_queue)
    /\ ready_queue' = Tail(ready_queue)
    /\ run_pc' = "set_running"
    /\ sched_mtx' = NoThread
    /\ UNCHANGED <<process_table, next_transaction_id, sched_waiters, running,
                   gantt_chart, s_pc, s_arg, enq_hist, stops_returned>>

\* process_manager.update_process_state(transaction_id, "Running"); sleep_for
RunSetRunning ==
    /\ SchedOnly
    /\ run_pc = "set_running"
    /\ process_table' = UpdatedState(process_table, run_tid, "Running")
    /\ run_pc' = "set_terminated"
    /\ UNCHANGED <<next_transaction_id, ready_queue, sched_mtx, sched_waiters,
                   running, gantt_chart, run_tid, s_pc, s_arg, enq_hist,
                   stops_returned>>

\* process_manager.update_process_state(transaction_id, "Terminated")
RunSetTerminated ==
    /\ SchedOnly
    /\ run_pc = "set_terminated"
    /\ process_table' = UpdatedState(process_table, run_tid, "Terminated")
    /\ run_pc' = "record"
    /\ UNCHANGED <<next_transaction_id, ready_queue, sched_mtx, sched_waiters,
                   running, gantt_chart, run_tid, s_pc, s_arg, enq_hist,
                   stops_returned>>

\* gantt_chart.push_back({transaction_id, "Running"}); back to while (running)
RunRecord ==
    /\ SchedOnly
    /\ run_pc = "record"
    /\ gantt_chart' = Append(gantt_chart, <<run_tid, "Running">>)
    /\ run_tid' = 0
    /\ run_pc' = "loop"
    /\ UNCHANGED <<process_table, next_transaction_id, ready_queue, sched_mtx,
                   sched_waiters, running, s_pc, s_arg, enq_hist, stops_returned>>

\* the steps of Scheduler::run that the thread takes by itself
RunStep ==
    \/ RunLoop
    \/ RunLock
    \/ RunPredicate
    \/ RunWait
    \/ RunWake
    \/ RunCheck
    \/ RunDequeue
    \/ RunSetRunning
    \/ RunSetTerminated
    \/ RunRecord

ClientStep(c) ==
    \/ CreateTransaction(c)
    \/ AddToReadyQueueLock(c)
    \/ AddToReadyQueuePush(c)
    \/ TerminateTransaction(c)
    \/ StopStore(c)
    \/ StopNotify(c)

SchedNext ==
    \/ RunStep
    \/ SpuriousWakeup
    \/ \E c \in Clients : ClientStep(c)

\* the clients' steps of a run in which nobody calls stop()
SubmitStep(c) ==
    \/ CreateTransaction(c)
    \/ AddToReadyQueueLock(c)
    \/ AddToReadyQueuePush(c)
    \/ TerminateTransaction(c)

NoStopNext ==
    \/ RunStep
    \/ SpuriousWakeup
    \/ \E c \in Clients : SubmitStep(c)

(***************************************************************************)
(* IPCManager                                                              *)
(*                                                                         *)
(* The k-th message sent is the number k (main's messages are distinct     *)
(* strings); the empty string that a non-blocking receive returns on an    *)
(* empty queue is 0.                                                       *)
(***************************************************************************)
IPCThreads == 1..NumIPCThreads

EmptyString == 0

\* mutant of Dequeued: the message returned stays in the queue
Dequeued_NotPopped(q) == q

\* message_queue.pop()
Dequeued(q) == Tail(q)

\* mutant of AfterNotifyOne: the notification reaches no waiting thread
AfterNotifyOne_Lost(waiters) == {waiters}

\* cv.notify_one(): the sets of threads still waiting that it can leave: any
\* one of the waiting threads is woken, if there is one
AfterNotifyOne(waiters) ==
    IF waiters = {} THEN {waiters} ELSE {waiters \ {w} : w \in waiters}

\* mutant of Blocking: every receive_message waits, whatever its argument
Blocking_Always(arg) == TRUE

\* receive_message: if (blocking)
Blocking(arg) == arg = 1

IPCInit ==
    /\ message_queue = <<>>
    /\ ipc_mtx = NoThread
    /\ ipc_waiters = {}
    /\ i_pc = [t \in IPCThreads |-> "idle"]
    /\ i_arg = [t \in IPCThreads |-> 0]
    /\ sent = <<>>
    /\ received = <<>>
    /\ receives = 0

\* send_message(message): lock_guard<mutex> lock(mtx)
SendLock(t) ==
    /\ IPCOnly
    /\ i_pc[t] = "idle"
    /\ Len(sent) + Cardinality({u \in IPCThreads : i_pc[u] = "send_push"}) < MaxSends
    /\ MutexFree(ipc_mtx)
    /\ ipc_mtx' = t
    /\ i_pc' = [i_pc EXCEPT ![t] = "send_push"]
    /\ UNCHANGED <<message_queue, ipc_waiters, i_arg, sent, received, receives>>

\* send_message: message_queue.push(message); cv.notify_one(); return
SendPush(t) ==
    /\ IPCOnly
    /\ i_pc[t] = "send_push"
    /\ message_queue' = Append(message_queue, Len(sent) + 1)
    /\ sent' = Append(sent, Len(sent) + 1)
    /\ ipc_waiters' \in AfterNotifyOne(ipc_waiters)
    /\ ipc_mtx' = NoThread
    /\ i_pc' = [i_pc EXCEPT ![t] = "idle"]
    /\ UNCHANGED <<i_arg, received, receives>>

\* receive_message(blocking): unique_lock<mutex> lock(mtx)
ReceiveLock(t) ==
    /\ IPCOnly
    /\ i_pc[t] = "idle"
    /\ receives < MaxReceives
    /\ MutexFree(ipc_mtx)
    /\ ipc_mtx' = t
    /\ receives' = receives + 1
    /\ \E blocking \in {0, 1} : i_arg' = [i_arg EXCEPT ![t] = blocking]
    /\ i_pc' = [i_pc EXCEPT ![t] = "recv_test"]
    /\ UNCHANGED <<message_queue, ipc_waiters, sent, received>>

\* blocking: cv.wait's predicate !message_queue.empty(); non-blocking: an empty
\* queue returns "" (the lock is released)
ReceiveTest(t) ==
    /\ IPCOnly
    /\ i_pc[t] = "recv_test"
    /\ IF message_queue # <<>>
          THEN /\ i_pc' = [i_pc EXCEPT ![t] = "recv_pop"]
               /\ UNCHANGED <<ipc_mtx, received, i_arg>>
          ELSE IF Blocking(i_arg[t])
                  THEN /\ i_pc' = [i_pc EXCEPT ![t] = "recv_wait"]
                       /\ UNCHANGED <<ipc_mtx, received, i_arg>>
                  ELSE /\ i_pc' = [i_pc EXCEPT ![t] = "idle"]
                       /\ ipc_mtx' = NoThread
                       /\ received' = Append(received, EmptyString)
                       /\ i_arg' = [i_arg EXCEPT ![t] = 0]
    /\ UNCHANGED <<message_queue, ipc_waiters, sent, receives>>

\* cv.wait: the predicate was false: wait(lock) releases mtx and blocks, in
\* one step
ReceiveWait(t) ==
    /\ IPCOnly
    /\ i_pc[t] = "recv_wait"
    /\ ipc_mtx' = NoThread
    /\ ipc_waiters' = ipc_waiters \cup {t}
    /\ i_pc' = [i_pc EXCEPT ![t] = "recv_blocked"]
    /\ UNCHANGED <<message_queue, i_arg, sent, received, receives>>

\* cv.wait: notified (or woken without a notification), wait(lock) takes mtx
\* again and returns to the predicate
ReceiveWake(t) ==
    /\ IPCOnly
    /\ i_pc[t] = "recv_blocked"
    /\ t \notin ipc_waiters
    /\ MutexFree(ipc_mtx)
    /\ ipc_mtx' = t
    /\ i_pc' = [i_pc EXCEPT ![t] = "recv_test"]
    /\ UNCHANGED <<message_queue, ipc_waiters, i_arg, sent, received, receives>>

\* condition_variable::wait may return without a notification
ReceiveSpuriousWakeup(t) ==
    /\ IPCOnly
    /\ i_pc[t] = "recv_blocked"
    /\ t \in ipc_waiters
    /\ ipc_waiters' = ipc_waiters \ {t}
    /\ UNCHANGED <<message_queue, ipc_mtx, i_pc, i_arg, sent, received, receives>>

\* message = message_queue.front(); message_queue.pop(); return message
ReceivePop(t) ==
    /\ IPCOnly
    /\ i_pc[t] = "recv_pop"
    /\ received' = Append(received, Head(message_queue))
    /\ message_queue' = Dequeued(message_queue)
    /\ ipc_mtx' = NoThread
    /\ i_pc' = [i_pc EXCEPT ![t] = "idle"]
    /\ i_arg' = [i_arg EXCEPT ![t] = 0]
    /\ UNCHANGED <<ipc_waiters, sent, receives>>

\* the steps of receive_message that the calling thread takes by itself
ReceiveStep(t) ==
    \/ ReceiveTest(t)
    \/ ReceiveWait(t)
    \/ ReceiveWake(t)
    \/ ReceivePop(t)

IPCNext ==
    \E t \in IPCThreads :
        \/ SendLock(t)
        \/ SendPush(t)
        \/ ReceiveLock(t)
        \/ ReceiveTest(t)
        \/ ReceiveWait(t)
        \/ ReceiveWake(t)
        \/ ReceiveSpuriousWakeup(t)
        \/ ReceivePop(t)

(***************************************************************************)
(* Specifications                                                          *)
(***************************************************************************)
Init ==
    /\ LedgerInit
    /\ MMInit
    /\ SchedInit
    /\ IPCInit

LedgerSpec == Init /\ [][LedgerNext]_vars

DepositSpec == Init /\ [][DepositNext]_vars

DirectSpec == Init /\ [][DirectNext]_vars

BalanceSpec == Init /\ [][BalanceNext]_vars

UnknownSpec == Init /\ [][UnknownNext]_vars

CreateSpec == Init /\ [][CreateNext]_vars

WithdrawSpec == Init /\ [][WithdrawNext]_vars

MMSpec == Init /\ [][MMNext]_vars

SchedSpec == Init /\ [][SchedNext]_vars

IPCSpec == Init /\ [][IPCNext]_vars

\* Every thread inside receive_message is scheduled fairly, and a thread inside
\* send_message finishes the call (the body under the lock is a push and a
\* notify), so mtx is released.  Whether and when a thread calls
\* send_message or receive_message is left open.
IPCFairSpec ==
    /\ Init
    /\ [][IPCNext]_vars
    /\ \A t \in IPCThreads : WF_vars(ReceiveStep(t)) /\ WF_vars(SendPush(t))

\* The threads inside calls of the ledger keep running: while one of them can
\* take a step, a step is taken (a critical section is a few statements and a
\* file write).  Whether and when a thread makes a call is left open.
AllCallsFairSpec ==
    /\ Init
    /\ [][AllCallsNext]_vars
    /\ WF_vars(\E t \in LedgerThreads : InCallStep(t))

\* stop() is never called.  The run thread is scheduled fairly: a step it can
\* take is taken.  A client inside add_to_ready_queue finishes the call (the
\* body under the lock is a push and a notify), so mtx is released.
NoStopSpec ==
    /\ Init
    /\ [][NoStopNext]_vars
    /\ WF_vars(RunStep)
    /\ WF_vars(\E c \in Clients : AddToReadyQueuePush(c))

(***************************************************************************)
(* Claims about the ledger                                                 *)
(***************************************************************************)
\* no worker is inside a call
Quiescent == \A t \in Workers : l_pc[t] \in {"idle", "done"}

WorkersDone == \A t \in Workers : l_pc[t] = "done"

\* worker t's call was of this kind on account a and returned true
Succeeded(t, kind, a) ==
    /\ l_pc[t] = "done"
    /\ l_ret[t] = "true"
    /\ l_op[t].kind = kind
    /\ l_op[t].account_id = a

\* the sum of w[t] over the threads t of T
RECURSIVE SumOf(_, _)
SumOf(T, w) ==
    IF T = {} THEN 0
    ELSE LET t == CHOOSE x \in T : TRUE
         IN  w[t] + SumOf(T \ {t}, w)

\* the sum of the amounts of the deposits into a that returned true
Deposited(a) ==
    SumOf(Workers, [t \in Workers |->
                       IF Succeeded(t, "deposit", a) THEN l_op[t].amount ELSE 0])

\* the sum of the amounts of the withdrawals from a that returned true
Withdrawn(a) ==
    SumOf(Workers, [t \in Workers |->
                       IF Succeeded(t, "withdraw", a) THEN l_op[t].amount ELSE 0])

\* the calls the workers have made so far
CallsMade == {l_op[t] : t \in {u \in Workers : l_pc[u] # "idle"}}

\* C1: when every worker has deposited a positive amount into the same
\* existing account and all calls have returned, the balance is the initial
\* balance plus the sum of all the amounts: no deposit is lost.
C1_NoDepositLost ==
    (WorkersDone /\ 1 \in DOMAIN accounts) =>
        accounts[1].balance =
            opened[1] + SumOf(Workers, [t \in Workers |-> l_op[t].amount])

C1_Witness ==
    /\ WorkersDone
    /\ 1 \in DOMAIN accounts
    /\ \A t \in Workers : l_op[t].kind = "deposit" /\ l_op[t].amount > 0
    /\ \E t \in Workers : l_op[t].via = "sys"
    /\ \E t \in Workers : l_op[t].via = "am"
    /\ accounts[1].balance > opened[1]

\* C2: whenever no call is under way, each account's balance is its initial
\* balance plus the deposits that returned true minus the withdrawals that
\* returned true; and for an account opened with 1000, a deposit of 500 and a
\* withdrawal of 200 both return true and leave 1300.
C2_BalanceIsSumOfSuccesses ==
    Quiescent =>
        /\ \A a \in DOMAIN accounts :
              accounts[a].balance = opened[a] + Deposited(a) - Withdrawn(a)
        /\ ( /\ 1 \in DOMAIN accounts
             /\ opened[1] = 1000
             /\ Cardinality({t \in Workers : l_pc[t] = "done"}) = 2
             /\ CallsMade = {Op("deposit", "sys", 1, 500), Op("withdraw", "sys", 1, 200)} )
           => /\ \A t \in Workers : l_pc[t] = "done" => l_ret[t] = "true"
              /\ accounts[1].balance = 1300

C2_Witness ==
    /\ Quiescent
    /\ 1 \in DOMAIN accounts
    /\ opened[1] = 1000
    /\ Cardinality({t \in Workers : l_pc[t] = "done"}) = 2
    /\ CallsMade = {Op("deposit", "sys", 1, 500), Op("withdraw", "sys", 1, 200)}
    /\ accounts[1].balance = 1300

\* thread t is in withdraw, holds the mutex, and finds the account with a
\* balance below the amount
FindsInsufficient(t) ==
    /\ l_pc[t] = "am_find"
    /\ l_op[t].kind = "withdraw"
    /\ Found(l_op[t].account_id)
    /\ accounts[l_op[t].account_id].balance < l_op[t].amount

\* thread t is on deposit's / withdraw's way to return false
Failing(t) ==
    \/ l_pc[t] = "am_false"
    \/ l_pc[t] \in {"log_error", "write_error"} /\ l_after[t] = "am_false"

\* C3: a withdraw that finds the account's balance below the amount goes on
\* to return false, and none of its steps from there changes any account.
C3_InsufficientFundsRefused ==
    [][\A t \in Workers :
          /\ (FindsInsufficient(t) /\ l_pc'[t] # l_pc[t]) =>
                (Failing(t)' /\ accounts' = accounts)
          /\ (Failing(t) /\ l_pc'[t] # l_pc[t]) =>
                /\ accounts' = accounts
                /\ Failing(t)' \/ (l_pc'[t] = "done" /\ l_ret'[t] = "false")]_vars

C3_Witness ==
    \E t \in Workers :
        /\ l_pc[t] = "done"
        /\ l_ret[t] = "false"
        /\ l_op[t].kind = "withdraw"
        /\ Found(l_op[t].account_id)
        /\ accounts[l_op[t].account_id].balance < l_op[t].amount
        /\ accounts[l_op[t].account_id].balance = opened[l_op[t].account_id]
        /\ Cardinality(DOMAIN accounts) > 1

\* C9: a deposit or withdraw with amount <= 0 on an existing account returns
\* false and leaves the balance unchanged, called on AccountManager itself
\* just as through SystemCallInterface.
C9_LedgerRefusesNonPositive ==
    /\ \A t \in Workers :
          (l_pc[t] = "done" /\ l_op[t].amount <= 0 /\ Found(l_op[t].account_id)) =>
              l_ret[t] = "false"
    /\ Quiescent =>
          \A a \in DOMAIN accounts :
              accounts[a].balance =
                  opened[a]
                  + SumOf(Workers, [t \in Workers |->
                        IF Succeeded(t, "deposit", a) /\ l_op[t].amount > 0
                           THEN l_op[t].amount ELSE 0])
                  - SumOf(Workers, [t \in Workers |->
                        IF Succeeded(t, "withdraw", a) /\ l_op[t].amount > 0
                           THEN l_op[t].amount ELSE 0])

\* C13: the value check_balance is about to return (it still holds the mutex)
\* is the account's balance in that state, an instant between its call and
\* its return, and that balance is the initial balance with exactly the
\* deposits and withdrawals applied that have returned true: no mutation that
\* returned is missed, none is seen in part.
C13_BalanceReadsLinearizable ==
    \A t \in Workers :
        l_pc[t] = "cb_value" =>
            LET a == l_op[t].account_id
            IN  /\ Found(a)
                /\ l_tmp[t] = accounts[a].balance
                /\ l_tmp[t] = opened[a] + Deposited(a) - Withdrawn(a)

\* a check_balance through SystemCallInterface that started while a deposit
\* was under way returns the balance with the deposit applied
C13_Witness ==
    \E t, u \in Workers :
        /\ l_pc[t] = "cb_value"
        /\ l_op[t].via = "sys"
        /\ Succeeded(u, "deposit", l_op[t].account_id)
        /\ l_tmp[t] = opened[l_op[t].account_id] + 200
        /\ t < u

\* thread t is on the way to SystemCallInterface's refusal of an account id
\* that get_account did not find
SysFailing(t) ==
    \/ l_pc[t] \in {"get_invalid", "sys_refused"}
    \/ l_pc[t] \in {"log_error", "write_error"}
          /\ l_after[t] \in {"get_invalid", "sys_refused"}

\* thread t takes a step
Moves(t) == l_pc'[t] # l_pc[t]

\* thread t has returned the failure value of its call
ReturnedFailure(t) ==
    /\ l_pc[t] = "done"
    /\ l_ret[t] = Failure(l_op[t].kind)
    /\ l_op[t].kind = "check_balance" => l_tmp[t] = -1

\* C14: a deposit, withdraw, check_balance or update_balance that finds its
\* account id missing from the ledger when it is applied (in get_account's
\* lookup or in the method's own) goes on to return the failure value, false
\* or -1, and changes no account on the way, also when the account was
\* deleted after SystemCallInterface's validation; and the set of account ids
\* changes only in a step of add_account or delete_account.
C14_UnknownAccountRefused ==
    [][/\ \A t \in Workers :
             /\ (l_pc[t] \in {"am_find", "get_find"} /\ ~Found(l_op[t].account_id) /\ Moves(t))
                   => ((Failing(t) \/ SysFailing(t))' /\ accounts' = accounts)
             /\ ((Failing(t) \/ SysFailing(t)) /\ ~Found(l_op[t].account_id) /\ Moves(t))
                   => /\ accounts' = accounts
                      /\ (Failing(t) \/ SysFailing(t) \/ ReturnedFailure(t))'
       /\ (DOMAIN accounts' # DOMAIN accounts)
             => \E t \in LedgerThreads : l_pc[t] \in {"add_body", "del_erase"} /\ Moves(t)
      ]_vars

\* a deposit through SystemCallInterface passed the validation (one error
\* line only, AccountManager's), the account was deleted before the deposit
\* took the lock, and the deposit returned false
C14_Witness ==
    \E t, u \in Workers :
        /\ l_pc[t] = "done"
        /\ l_op[t] = Op("deposit", "sys", 1, 200)
        /\ l_ret[t] = "false"
        /\ Succeeded(u, "delete_account", 1)
        /\ error_log = 1
        /\ created = <<1, 2>>
        /\ accounts[2].balance = opened[2]

\* the ids the successful create_account calls returned, in the order of
\* their returns from add_account
CreatedIds == SelectSeq(created, LAMBDA id : id # -1)

\* C15: the ids returned by create_account, taken in the order in which the
\* accounts were created, are strictly increasing: no two calls return the
\* same id, whatever their interleaving, and the id of a deleted account is
\* not given out again.
C15_AccountIdsIncrease ==
    /\ \A i, j \in 1..Len(CreatedIds) : i < j => CreatedIds[i] < CreatedIds[j]
    /\ \A i \in 1..Len(CreatedIds) : CreatedIds[i] < next_account_id
    /\ \A a \in DOMAIN accounts : a < next_account_id

\* the account created last was deleted, and a create_account called after
\* that returned the next id, not the deleted one
C15_Witness ==
    \E t, u \in Workers :
        /\ u < t
        /\ Succeeded(u, "delete_account", MaxCreates)
        /\ l_pc[t] = "done"
        /\ l_op[t].kind = "create_account"
        /\ CreatedIds = [i \in 1..(MaxCreates + 1) |-> i]
        /\ DOMAIN accounts = (1..(MaxCreates + 1)) \ {MaxCreates}

\* thread t is in withdraw, has written the new balance and is on its way to
\* return true, the mutex still held
WithdrawSucceeding(t) ==
    /\ l_op[t].kind = "withdraw"
    /\ \/ l_pc[t] = "am_true"
       \/ l_pc[t] \in {"log_transaction", "write_transaction"} /\ l_after[t] = "am_true"

\* C17: from the store of a withdraw that succeeds up to its return of true,
\* the account's balance is not negative, whatever the balance was before and
\* whatever the sign of the amount.
C17_NonNegativeAfterWithdraw ==
    \A t \in Workers :
        WithdrawSucceeding(t) => accounts[l_op[t].account_id].balance >= 0

\* a withdraw succeeded on a balance that an earlier call had made negative
C17_Witness ==
    \E t \in Workers :
        /\ WithdrawSucceeding(t)
        /\ l_pc[t] = "am_true"
        /\ l_tmp[t] < 0
        /\ accounts[l_op[t].account_id].balance >= 0

\* the positions at which a thread is about to lock AccountManager::mtx
AtAccountLock == {"add_lock", "get_lock", "am_lock"}

\* the positions at which a thread is about to lock Logger::log_mtx
AtLogLock == {"log_transaction", "log_error"}

\* thread t is inside a call
InCall(t) == l_pc[t] \notin {"idle", "done", "joining"}

\* C21: the ledger's calls are deadlock-free.  A thread that holds the
\* logger mutex is writing its line and locks nothing; a thread about to lock
\* the account mutex holds neither mutex, and one about to lock the logger
\* mutex does not hold the logger mutex (the order is account mutex, then
\* logger mutex, and no mutex is locked again by its holder); and under fair
\* scheduling every call of create_account, deposit, withdraw, check_balance
\* and delete_account that is under way returns.
C21_LedgerDeadlockFree ==
    /\ [](\A t \in LedgerThreads :
             /\ log_mtx = t => l_pc[t] \in {"write_transaction", "write_error"}
             /\ l_pc[t] \in AtAccountLock => am_mtx # t /\ log_mtx # t
             /\ l_pc[t] \in AtLogLock => log_mtx # t)
    /\ \A t \in LedgerThreads : InCall(t) ~> ~InCall(t)

\* a thread holds the account mutex and waits for the logger mutex, which a
\* thread in create_account's handle_error holds without the account mutex
C21_Witness ==
    \E t, u \in Workers :
        /\ t # u
        /\ am_mtx = t
        /\ l_pc[t] \in AtLogLock
        /\ log_mtx = u
        /\ l_pc[u] = "write_error"
        /\ l_after[u] = "create_refused"
        /\ am_mtx # u

(***************************************************************************)
(* Claims about the scheduler                                              *)
(***************************************************************************)
ClientsIdle == \A c \in Clients : s_pc[c] = "idle"

\* the transaction ids of the Gantt chart, in order
GanttIds == [i \in 1..Len(gantt_chart) |-> gantt_chart[i][1]]

\* the transaction run has taken off the queue and not yet recorded
InFlight == IF run_tid # 0 THEN <<run_tid>> ELSE <<>>

\* C5: once a call of stop() has returned and no client is inside a call,
\* Scheduler::run has returned or can take its next step by itself: it is not
\* left blocked in cv.wait until someone notifies again.
C5_StopEndsRun ==
    (stops_returned > 0 /\ ClientsIdle) => (run_pc = "returned" \/ ENABLED RunStep)

\* C10: transactions are executed in the order they were put on the ready
\* queue: the ids recorded in the Gantt chart, then the one being executed,
\* then the ids still queued, are the ids in the order of their
\* add_to_ready_queue calls.
C10_FifoExecution ==
    GanttIds \o InFlight \o ready_queue = enq_hist

C10_Witness ==
    /\ Len(gantt_chart) >= 2
    /\ GanttIds = enq_hist
    /\ GanttIds[1] > GanttIds[2]

\* the transaction ids
TxIds == 1..MaxTx

\* how many Gantt entries carry the id
Executions(id) == Cardinality({i \in 1..Len(gantt_chart) : gantt_chart[i][1] = id})

\* C11: when stop() is never called and the run thread is scheduled fairly,
\* every id pushed by add_to_ready_queue is eventually executed and recorded
\* by the run loop, also when the push finds the loop blocked on an empty
\* queue, and no id is executed more often than it was pushed (once).
C11_EveryEnqueuedIdExecutedOnce ==
    /\ \A id \in TxIds : (id \in Range(enq_hist)) ~> (Executions(id) = 1)
    /\ [](\A id \in TxIds : Executions(id) <= 1)

\* an id was pushed while the loop was blocked on the empty queue, after an
\* earlier id had been executed
C11_Witness ==
    /\ run_pc = "blocked"
    /\ RunThread \notin sched_waiters
    /\ Len(ready_queue) = 1
    /\ Len(gantt_chart) >= 1
    /\ stops_returned = 0
    /\ running

\* C18: stop() only halts future dequeues.  A transaction that run has
\* dequeued is taken through Running and Terminated to its Gantt entry
\* whatever the value of running; and once a call of stop() has returned,
\* run takes nothing from the ready queue any more, so that at most the
\* transaction in flight is executed afterwards.
C18_StopHaltsFutureDequeues ==
    [][/\ (run_pc \in {"set_running", "set_terminated", "record"} /\ run_pc' # run_pc)
             => \/ run_pc' \in {"set_terminated", "record"} /\ run_tid' = run_tid
                \/ /\ run_pc' = "loop"
                   /\ gantt_chart' = Append(gantt_chart, <<run_tid, "Running">>)
       /\ stops_returned > 0 => ~(ready_queue # <<>> /\ ready_queue' = Tail(ready_queue))
      ]_vars

\* the position of a state on the way Ready -> Running -> Terminated
StateRank(st) ==
    CASE st = "Ready" -> 1
      [] st = "Running" -> 2
      [] st = "Terminated" -> 3

\* the transactions whose entry says Running
RunningNow == {id \in DOMAIN process_table : process_table[id].state = "Running"}

\* C20: the state of a process table entry only moves forward through Ready,
\* Running, Terminated; run sets Running before Terminated (an entry is
\* Running when run is about to set it Terminated, Terminated when run
\* records it); at most one entry is Running at a time; and an entry that
\* was removed does not come back: a new entry is one just created, Ready.
\* Each transaction id is put on the ready queue once, after its creation.
C20_StatesMoveForward ==
    [][/\ \A id \in DOMAIN process_table \cap DOMAIN process_table' :
             StateRank(process_table'[id].state) >= StateRank(process_table[id].state)
       /\ \A id \in DOMAIN process_table' \ DOMAIN process_table :
             id = next_transaction_id /\ process_table'[id].state = "Ready"
       /\ Cardinality(RunningNow') <= 1
       /\ (run_pc' = "set_terminated" /\ run_tid' \in DOMAIN process_table')
             => process_table'[run_tid'].state = "Running"
       /\ (run_pc' = "record" /\ run_tid' \in DOMAIN process_table')
             => process_table'[run_tid'].state = "Terminated"
      ]_vars

\* run has executed one transaction, whose entry says Terminated, and has
\* updated the state of a second one that a client had removed from the
\* table: there is no entry for it
C20_Witness ==
    /\ run_pc = "record"
    /\ run_tid \notin DOMAIN process_table
    /\ Len(gantt_chart) = 1
    /\ gantt_chart[1][1] \in DOMAIN process_table
    /\ process_table[gantt_chart[1][1]].state = "Terminated"

(***************************************************************************)
(* Claims about IPCManager                                                 *)
(***************************************************************************)
\* the messages among the values receive_message returned ("" left out)
ReceivedMessages == SelectSeq(received, LAMBDA m : m # EmptyString)

\* C6: the messages returned so far, followed by the messages still queued,
\* are the messages sent, in the order they were sent: none is returned
\* twice, none leaves the queue unreturned, and they are returned in sending
\* order, whether or not a receiver was waiting when they were sent.
C6_EachMessageOnceInOrder ==
    ReceivedMessages \o message_queue = sent

C6_Witness ==
    /\ Len(sent) >= 2
    /\ ReceivedMessages = sent
    /\ \A t \in IPCThreads : i_pc[t] = "idle"
    /\ EmptyString \notin Range(received)

\* the threads inside receive_message
Receiving == {t \in IPCThreads : i_pc[t] \in {"recv_test", "recv_wait", "recv_blocked", "recv_pop"}}

\* C12: no wake-up is lost on the message channel.  Whenever, from some point
\* on, at least as many messages were sent as receive_message calls were
\* made (k messages for k receivers; one send for one waiting receiver), every
\* one of these calls eventually returns; and a receive_message that finds a
\* message in the queue (sent before the receiver arrived) does not block.
C12_NoLostWakeup ==
    /\ (<>[](receives <= Len(sent))) => <>[](Receiving = {})
    /\ [](\A t \in IPCThreads : i_pc[t] = "recv_wait" => message_queue = <<>>)

\* two receivers blocked on the empty queue were each woken by one of two
\* sends and have not run yet
C12_Witness ==
    /\ Cardinality({t \in IPCThreads : i_pc[t] = "recv_blocked" /\ t \notin ipc_waiters}) = 2
    /\ Len(message_queue) = 2
    /\ received = <<>>

\* C19: a receive_message(false) never waits on the condition variable: when
\* it finds the queue empty it returns the empty string at once and the
\* queue stays as it is; when it finds a message it goes on to return the
\* oldest one and to remove it from the queue.
C19_NonBlockingReceive ==
    [][\A t \in IPCThreads :
          /\ (i_pc'[t] \in {"recv_wait", "recv_blocked"}) => i_arg'[t] = 1
          /\ (i_pc[t] = "recv_test" /\ i_arg[t] = 0 /\ i_pc'[t] # i_pc[t]) =>
                IF message_queue = <<>>
                   THEN /\ i_pc'[t] = "idle"
                        /\ received' = Append(received, EmptyString)
                        /\ message_queue' = message_queue
                   ELSE /\ i_pc'[t] = "recv_pop"
                        /\ UNCHANGED <<received, message_queue>>
          /\ (i_pc[t] = "recv_pop" /\ i_arg[t] = 0 /\ i_pc'[t] # i_pc[t]) =>
                /\ i_pc'[t] = "idle"
                /\ received' = Append(received, message_queue[1])
                /\ message_queue' = Tail(message_queue)
      ]_vars

\* one non-blocking receive has returned the empty string from the empty
\* queue, and another one is about to return the older of two messages
C19_Witness ==
    /\ received = <<EmptyString>>
    /\ Len(message_queue) = 2
    /\ \E t \in IPCThreads : i_pc[t] = "recv_pop" /\ i_arg[t] = 0
    /\ ipc_waiters = {}
    /\ \A t \in IPCThreads : i_pc[t] # "recv_blocked"

(***************************************************************************)
(* Claims about MemoryManager                                              *)
(***************************************************************************)
MMIdle == \A t \in MMThreads : mm_pc[t] = "idle"

\* no store can take a further step: every caller is outside the cache, or
\* stuck in it, or gone
MMSettled == \A t \in MMThreads : mm_pc[t] \in {"idle", "deadlocked", "terminated"}

MemoryAccounts == [i \in 1..Len(memory) |-> memory[i].account_id]

LastN(s, n) == IF Len(s) <= n THEN s ELSE SubSeq(s, Len(s) - n + 1, Len(s))

\* the distinct accounts of a touch history, least recently touched first
RECURSIVE LRUOrder(_)
LRUOrder(h) ==
    IF h = <<>> THEN <<>>
    ELSE LET last == h[Len(h)]
             rest == LRUOrder(SubSeq(h, 1, Len(h) - 1))
         IN  Append(SelectSeq(rest, LAMBDA x : x # last), last)

\* C4: a store of a new account that finds the cache full completes: the
\* caller is never stuck in replace_page nor thrown out of it, and when
\* replace_page is done the cache holds max_pages entries, the new one last.
C4_StoreAtCapacityCompletes ==
    \A t \in MMThreads :
        /\ mm_pc[t] \in {"deadlocked", "terminated"} =>
              mm_arg[t].account_id \in CachedAccounts
        /\ mm_pc[t] = "replace_unlock" =>
              /\ Len(memory) = max_pages
              /\ memory[Len(memory)] = mm_arg[t]

\* C7: eviction follows recency of last touch: between calls the cache holds
\* one entry for each of the max_pages most recently touched accounts, in
\* order of their last touch (a re-stored account is refreshed and moves to
\* the most-recently-used end).
C7_EvictionFollowsRecency ==
    MMIdle => MemoryAccounts = LastN(LRUOrder(mm_hist), max_pages)

\* C8: the cache never holds more than max_pages entries, and once
\* max_pages+1 distinct accounts were stored in order the first one is gone
\* and the other max_pages are cached.
C8_CapacityAndFirstEvicted ==
    /\ Len(memory) <= max_pages
    /\ (MMSettled /\ Len(mm_hist) = max_pages + 1 /\ Distinct(mm_hist)) =>
          /\ mm_hist[1] \notin CachedAccounts
          /\ \A i \in 2..Len(mm_hist) : mm_hist[i] \in CachedAccounts

\* C16: the cache never holds two entries for the same account id: a store
\* of an account that is cached replaces its entry.
C16_OneEntryPerAccount ==
    Distinct(MemoryAccounts)

=============================================================================
